---- MODULE Spec2Model ----
(***************************************************************************)
(* A model of MediaPipeSkeletonDetector                                    *)
(* (src/core_processor/mediapipe_skeleton_detector/                        *)
(*  mediapipe_skeleton_detector.py).                                       *)
(*                                                                         *)
(* Two specifications share the operators that model the array code:       *)
(*   SpecArrays  one call of _list_of_mediapipe_results_to_npy_arrays,     *)
(*               stepped one loop iteration at a time;                     *)
(*   Spec        process_session_folder, stepped one video-loop position   *)
(*               at a time, calling the same conversion for each video.    *)
(*                                                                         *)
(* Arrays are functions over 0-based index ranges, as in numpy:            *)
(* a[f][k][d] is the cell a[f, k, d].  Python lists are sequences.         *)
(* Normalized coordinates and image sizes are small integers; NaN is the   *)
(* one value that is no coordinate.                                        *)
(***************************************************************************)
EXTENDS Integers, Sequences, FiniteSets, TLC

\* ------------------------------------------------------------------------
\* Bounds of the model
MaxFrames == 2          \* frames a video can deliver before its stream ends
MaxVideos == 2          \* *.mp4 files the session folder can hold
MaxLandmarks == 2       \* landmarks in one detected landmark list
\* sizes of the tracked-point catalog (33, 21, 21 and 478 in the program)
NumBodyNames == 2
NumRightHandNames == 1
NumLeftHandNames == 2
NumFaceNames == 1

\* ------------------------------------------------------------------------
\* Values
NaN == -1                                \* np.nan: no coordinate is negative
number_of_spatial_dimensions == 2        \* XY

IsNaN(v) == v = NaN

\* An optional value: None is the empty sequence, a present value v is <<v>>.
None == <<>>
Some(v) == <<v>>
IsNotNone(o) == o # None
Get(o) == o[1]

Range0(n) == 0 .. (n - 1)

\* ------------------------------------------------------------------------
\* The tracked-point catalog and the sizes the conversion takes from it
number_of_body_trackedPoints == NumBodyNames
number_of_right_hand_trackedPoints == NumRightHandNames
number_of_left_hand_trackedPoints == NumLeftHandNames
number_of_face_trackedPoints == NumFaceNames

\* ------------------------------------------------------------------------
\* The detector's output for one frame (mediapipe's holistic results):
\* each of the four landmark attributes is None or an object whose .landmark
\* is a list of landmarks with x, y and visibility.
PartNames == {"pose", "right_hand", "left_hand", "face"}

PartBase(p) ==
    CASE p = "pose" -> 10
      [] p = "right_hand" -> 20
      [] p = "left_hand" -> 30
      [] p = "face" -> 40

\* The j-th distinct landmark value a part can show.
LandmarkValue(p, j) ==
    [x |-> PartBase(p) + j,
     y |-> PartBase(p) + MaxLandmarks + j,
     visibility |-> IF p = "pose" THEN j ELSE 0]

\* A landmark list of MaxLandmarks pairwise distinct landmarks, in ascending
\* or descending order of their values.
LandmarkList(p, order) ==
    [landmark |->
        [i \in 1 .. MaxLandmarks |->
            IF order = "asc" THEN LandmarkValue(p, i)
            ELSE LandmarkValue(p, MaxLandmarks + 1 - i)]]

Orders == {"asc", "desc"}

\* The result for a frame that shows exactly the parts of `shown`.
Results(shown, order) ==
    [pose_landmarks |->
        IF "pose" \in shown THEN Some(LandmarkList("pose", order)) ELSE None,
     right_hand_landmarks |->
        IF "right_hand" \in shown THEN Some(LandmarkList("right_hand", order)) ELSE None,
     left_hand_landmarks |->
        IF "left_hand" \in shown THEN Some(LandmarkList("left_hand", order)) ELSE None,
     face_landmarks |->
        IF "face" \in shown THEN Some(LandmarkList("face", order)) ELSE None]

DetectorResults == {Results(shown, order) : shown \in SUBSET PartNames, order \in Orders}

\* (image_width, image_height) pairs; (1, 1) are the conversion's defaults.
ImageSizes == {<<1, 1>>, <<2, 3>>}

\* All sequences over S of length 0 .. n.
RECURSIVE SeqsUpTo(_, _)
SeqsUpTo(S, n) ==
    IF n = 0 THEN {<<>>}
    ELSE LET shorter == SeqsUpTo(S, n - 1)
         IN  shorter \cup {Append(s, e) : s \in {t \in shorter : Len(t) = n - 1}, e \in S}

\* ------------------------------------------------------------------------
\* numpy pieces

\* Mutant of NanArray3: np.zeros(shape) without the NaN fill.
ZerosArray3(frames, points, dims) ==
    [f \in Range0(frames) |-> [k \in Range0(points) |-> [d \in Range0(dims) |-> 0]]]

\* np.zeros(shape) followed by a[:] = np.nan
NanArray3(frames, points, dims) ==
    [f \in Range0(frames) |-> [k \in Range0(points) |-> [d \in Range0(dims) |-> NaN]]]

NanArray2(frames, points) ==
    [f \in Range0(frames) |-> [k \in Range0(points) |-> NaN]]

\* Mutant of AssignColumn: a[:, :, d] = value, the frame index dropped.
AssignColumnAllFrames(a, this_frame_number, d, value) ==
    [g \in DOMAIN a |-> [k \in DOMAIN a[g] |-> [a[g][k] EXCEPT ![d] = value]]]

\* a[this_frame_number, :, d] = value
AssignColumn(a, this_frame_number, d, value) ==
    [a EXCEPT ![this_frame_number] =
        [k \in DOMAIN a[this_frame_number] |->
            [a[this_frame_number][k] EXCEPT ![d] = value]]]

\* a[this_frame_number, :] = value
AssignRow(a, this_frame_number, value) ==
    [a EXCEPT ![this_frame_number] = [k \in DOMAIN a[this_frame_number] |-> value]]

\* The body of one `for this_landmark_data in ....landmark` iteration of a
\* part's XY array.
WriteLandmarkXY(a, this_frame_number, this_landmark_data, image_width, image_height) ==
    AssignColumn(
        AssignColumn(a, this_frame_number, 0, this_landmark_data.x * image_width),
        this_frame_number, 1, this_landmark_data.y * image_height)

\* Mutant of LandmarkLoopXY: the i-th landmark is written to tracked point
\* i - 1 alone instead of to the whole row.
RECURSIVE LandmarkLoopXYIndexed(_, _, _, _, _, _)
LandmarkLoopXYIndexed(a, this_frame_number, landmark, i, image_width, image_height) ==
    IF i > Len(landmark) THEN a
    ELSE LandmarkLoopXYIndexed(
            IF (i - 1) \in DOMAIN a[this_frame_number]
            THEN [a EXCEPT ![this_frame_number][i - 1] =
                    [d \in Range0(number_of_spatial_dimensions) |->
                        IF d = 0 THEN landmark[i].x * image_width
                        ELSE landmark[i].y * image_height]]
            ELSE a,
            this_frame_number, landmark, i + 1, image_width, image_height)

\* The whole `for this_landmark_data in ....landmark` loop over a part's XY
\* array, from the i-th landmark on.
RECURSIVE LandmarkLoopXY(_, _, _, _, _, _)
LandmarkLoopXY(a, this_frame_number, landmark, i, image_width, image_height) ==
    IF i > Len(landmark) THEN a
    ELSE LandmarkLoopXY(
            WriteLandmarkXY(a, this_frame_number, landmark[i], image_width, image_height),
            this_frame_number, landmark, i + 1, image_width, image_height)

\* The same loop's writes to the body confidence array.
RECURSIVE LandmarkLoopConfidence(_, _, _, _)
LandmarkLoopConfidence(a, this_frame_number, landmark, i) ==
    IF i > Len(landmark) THEN a
    ELSE LandmarkLoopConfidence(
            AssignRow(a, this_frame_number, landmark[i].visibility),
            this_frame_number, landmark, i + 1)

\* `if part is not None: for ... in part.landmark: ...` for one XY array
PartXY(a, this_frame_number, part, image_width, image_height) ==
    IF IsNotNone(part)
    THEN LandmarkLoopXY(a, this_frame_number, Get(part).landmark, 1,
                        image_width, image_height)
    ELSE a

PartConfidence(a, this_frame_number, part) ==
    IF IsNotNone(part)
    THEN LandmarkLoopConfidence(a, this_frame_number, Get(part).landmark, 1)
    ELSE a

\* sum(np.isnan(a[this_frame_number, :, :])): Python's sum adds the rows, so
\* the result has one count of NaN cells per spatial dimension.
RECURSIVE SumIsNan(_, _, _, _)
SumIsNan(a, this_frame_number, d, k) ==
    IF k \notin DOMAIN a[this_frame_number] THEN 0
    ELSE (IF IsNaN(a[this_frame_number][k][d]) THEN 1 ELSE 0)
         + SumIsNan(a, this_frame_number, d, k + 1)

\* all(sum(np.isnan(a[this_frame_number, :, :])) == 0)
AllVisible(a, this_frame_number) ==
    \A d \in Range0(number_of_spatial_dimensions) :
        SumIsNan(a, this_frame_number, d, 0) = 0

\* Mutant of AllPointsVisible: any([...]) in place of all([...]).
AnyPointsVisible(all_body_visible, all_right_hand_visible, all_left_hand_visible, all_face_visible) ==
    \/ all_body_visible
    \/ all_right_hand_visible
    \/ all_left_hand_visible
    \/ all_face_visible

\* all([body, right hand, left hand, face])
AllPointsVisible(all_body_visible, all_right_hand_visible, all_left_hand_visible, all_face_visible) ==
    /\ all_body_visible
    /\ all_right_hand_visible
    /\ all_left_hand_visible
    /\ all_face_visible

\* ------------------------------------------------------------------------
\* _list_of_mediapipe_results_to_npy_arrays

\* The arrays and lists the conversion allocates before its frame loop.
AllocateArrays(number_of_frames) ==
    [body2d_frameNumber_trackedPointNumber_XY |->
        NanArray3(number_of_frames, number_of_body_trackedPoints,
                  number_of_spatial_dimensions),
     body2d_frameNumber_trackedPointNumber_confidence |->
        NanArray2(number_of_frames, number_of_body_trackedPoints),
     rightHand2d_frameNumber_trackedPointNumber_XY |->
        NanArray3(number_of_frames, number_of_right_hand_trackedPoints,
                  number_of_spatial_dimensions),
     leftHand2d_frameNumber_trackedPointNumber_XY |->
        NanArray3(number_of_frames, number_of_left_hand_trackedPoints,
                  number_of_spatial_dimensions),
     face2d_frameNumber_trackedPointNumber_XY |->
        NanArray3(number_of_frames, number_of_face_trackedPoints,
                  number_of_spatial_dimensions),
     all_body_tracked_points_visible_on_this_frame_bool_list |-> <<>>,
     all_right_hand_points_visible_on_this_frame_bool_list |-> <<>>,
     all_left_hand_points_visible_on_this_frame_bool_list |-> <<>>,
     all_face_points_visible_on_this_frame_bool_list |-> <<>>,
     all_tracked_points_visible_on_this_frame_list |-> <<>>]

\* One iteration of `for this_frame_number, this_frame_results in enumerate(...)`.
FrameIteration(l, this_frame_number, this_frame_results, image_width, image_height) ==
    LET body == PartXY(l.body2d_frameNumber_trackedPointNumber_XY, this_frame_number,
                       this_frame_results.pose_landmarks, image_width, image_height)
        confidence == PartConfidence(l.body2d_frameNumber_trackedPointNumber_confidence,
                                     this_frame_number, this_frame_results.pose_landmarks)
        rightHand == PartXY(l.rightHand2d_frameNumber_trackedPointNumber_XY,
                            this_frame_number, this_frame_results.right_hand_landmarks,
                            image_width, image_height)
        leftHand == PartXY(l.leftHand2d_frameNumber_trackedPointNumber_XY,
                           this_frame_number, this_frame_results.left_hand_landmarks,
                           image_width, image_height)
        face == PartXY(l.face2d_frameNumber_trackedPointNumber_XY, this_frame_number,
                       this_frame_results.face_landmarks, image_width, image_height)
        all_body_visible == AllVisible(body, this_frame_number)
        all_right_hand_visible == AllVisible(rightHand, this_frame_number)
        all_left_hand_visible == AllVisible(leftHand, this_frame_number)
        all_face_visible == AllVisible(face, this_frame_number)
    IN  [body2d_frameNumber_trackedPointNumber_XY |-> body,
         body2d_frameNumber_trackedPointNumber_confidence |-> confidence,
         rightHand2d_frameNumber_trackedPointNumber_XY |-> rightHand,
         leftHand2d_frameNumber_trackedPointNumber_XY |-> leftHand,
         face2d_frameNumber_trackedPointNumber_XY |-> face,
         all_body_tracked_points_visible_on_this_frame_bool_list |->
            Append(l.all_body_tracked_points_visible_on_this_frame_bool_list,
                   all_body_visible),
         all_right_hand_points_visible_on_this_frame_bool_list |->
            Append(l.all_right_hand_points_visible_on_this_frame_bool_list,
                   all_right_hand_visible),
         all_left_hand_points_visible_on_this_frame_bool_list |->
            Append(l.all_left_hand_points_visible_on_this_frame_bool_list,
                   all_left_hand_visible),
         all_face_points_visible_on_this_frame_bool_list |->
            Append(l.all_face_points_visible_on_this_frame_bool_list, all_face_visible),
         all_tracked_points_visible_on_this_frame_list |->
            Append(l.all_tracked_points_visible_on_this_frame_list,
                   AllPointsVisible(all_body_visible, all_right_hand_visible,
                                    all_left_hand_visible, all_face_visible))]

\* The Mediapipe2dSingleCameraNpyArrays the conversion returns.
Mediapipe2dSingleCameraNpyArrays(l) ==
    [body2d_frameNumber_trackedPointNumber_XY |->
        l.body2d_frameNumber_trackedPointNumber_XY,
     rightHand2d_frameNumber_trackedPointNumber_XY |->
        l.rightHand2d_frameNumber_trackedPointNumber_XY,
     leftHand2d_frameNumber_trackedPointNumber_XY |->
        l.leftHand2d_frameNumber_trackedPointNumber_XY,
     face2d_frameNumber_trackedPointNumber_XY |->
        l.face2d_frameNumber_trackedPointNumber_XY,
     body2d_frameNumber_trackedPointNumber_confidence |->
        l.body2d_frameNumber_trackedPointNumber_confidence]

\* ------------------------------------------------------------------------
\* State

VARIABLES
    \* one call of _list_of_mediapipe_results_to_npy_arrays
    apc,                        \* position in the call
    mediapipe_results_list,     \* its arguments
    image_width,
    image_height,
    this_frame_number,          \* the frame loop's index
    locals,                     \* the arrays and lists it builds
    returned_arrays,            \* None, or the Mediapipe2dSingleCameraNpyArrays returned
    \* one call of process_session_folder
    pc,                         \* position in the call
    save_annotated_videos,      \* its argument
    video_files,                \* how many files the glob yields
    video_number,               \* the video loop's index
    this_video_capture_object,  \* the decoder: reads made, images delivered
    this_video_width,
    this_video_height,
    this_video_mediapipe_results_list,
    this_video_annotated_images_list,
    success,                    \* the last read's result
    image,
    mediapipe2d_single_camera_npy_arrays_list,
    annotated_videos,           \* the annotated videos written so far
    saved_npy,                  \* None, or the array np.save has written
    return_value,               \* None, or the array returned
    error                       \* the exception that left the call, if any

arrayVars == <<apc, mediapipe_results_list, image_width, image_height,
               this_frame_number, locals, returned_arrays>>

sessionVars == <<pc, save_annotated_videos, video_files, video_number,
                 this_video_capture_object, this_video_width, this_video_height,
                 this_video_mediapipe_results_list, this_video_annotated_images_list,
                 success, image, mediapipe2d_single_camera_npy_arrays_list,
                 annotated_videos, saved_npy, return_value, error>>

vars == <<arrayVars, sessionVars>>

NoError == [type |-> "none", line |-> 0]

\* Neither call is running.
ArraysIdle ==
    /\ apc = "idle"
    /\ mediapipe_results_list = <<>>
    /\ image_width = 1
    /\ image_height = 1
    /\ this_frame_number = 0
    /\ locals = None
    /\ returned_arrays = None

SessionIdle ==
    /\ pc = "idle"
    /\ save_annotated_videos = FALSE
    /\ video_files = 0
    /\ video_number = 0
    /\ this_video_capture_object = None
    /\ this_video_width = 0
    /\ this_video_height = 0
    /\ this_video_mediapipe_results_list = <<>>
    /\ this_video_annotated_images_list = <<>>
    /\ success = FALSE
    /\ image = None
    /\ mediapipe2d_single_camera_npy_arrays_list = <<>>
    /\ annotated_videos = <<>>
    /\ saved_npy = None
    /\ return_value = None
    /\ error = NoError

\* ------------------------------------------------------------------------
\* SpecArrays: _list_of_mediapipe_results_to_npy_arrays, called with any list
\* of detector results and any image size.

InitArrays ==
    /\ SessionIdle
    /\ apc = "allocate"
    /\ mediapipe_results_list \in SeqsUpTo(DetectorResults, MaxFrames)
    /\ \E size \in ImageSizes :
        /\ image_width = size[1]
        /\ image_height = size[2]
    /\ this_frame_number = 0
    /\ locals = None
    /\ returned_arrays = None

\* Everything before the frame loop.
Allocate ==
    /\ apc = "allocate"
    /\ locals' = Some(AllocateArrays(Len(mediapipe_results_list)))
    /\ apc' = "frames"
    /\ UNCHANGED <<mediapipe_results_list, image_width, image_height,
                   this_frame_number, returned_arrays>>
    /\ UNCHANGED sessionVars

\* One iteration of the frame loop.
Frame ==
    /\ apc = "frames"
    /\ this_frame_number < Len(mediapipe_results_list)
    /\ locals' = Some(FrameIteration(Get(locals), this_frame_number,
                                     mediapipe_results_list[this_frame_number + 1],
                                     image_width, image_height))
    /\ this_frame_number' = this_frame_number + 1
    /\ UNCHANGED <<apc, mediapipe_results_list, image_width, image_height,
                   returned_arrays>>
    /\ UNCHANGED sessionVars

\* The loop is exhausted: return the dataclass.
Return ==
    /\ apc = "frames"
    /\ this_frame_number >= Len(mediapipe_results_list)
    /\ returned_arrays' = Some(Mediapipe2dSingleCameraNpyArrays(Get(locals)))
    /\ apc' = "returned"
    /\ UNCHANGED <<mediapipe_results_list, image_width, image_height,
                   this_frame_number, locals>>
    /\ UNCHANGED sessionVars

NextArrays ==
    \/ Allocate
    \/ Frame
    \/ Return

SpecArrays == InitArrays /\ [][NextArrays]_vars

\* ------------------------------------------------------------------------
\* process_session_folder: its collaborators

\* (width, height) the capture object reports for a session video.
VideoSizes == {<<2, 3>>}

\* What a decoded image shows.  The detector is a function of the image.
SessionImages ==
    {[landmarks |-> Results(PartNames, "asc")],
     [landmarks |-> Results(PartNames \ {"pose"}, "desc")]}

\* detect_skeleton_in_image
DetectSkeletonInImage(raw_image) == raw_image.landmarks

\* What this_video_capture_object.read() can return after `reads` reads:
\* (False, None) at the end of the stream or on a decoding failure, otherwise
\* (True, image).
ReadResults(reads) ==
    {[success |-> FALSE, image |-> None]}
    \cup (IF reads < MaxFrames
          THEN {[success |-> TRUE, image |-> Some(img)] : img \in SessionImages}
          ELSE {})

\* The capture object after a read that returned r.
AfterRead(capture, r) ==
    [reads |-> capture.reads + 1,
     delivered |-> IF r.success /\ IsNotNone(r.image)
                   THEN Append(capture.delivered, Get(r.image))
                   ELSE capture.delivered]

\* ------------------------------------------------------------------------
\* The assembly of the stacked array

\* a and b laid end to end, both indexed from 0.
Concat0(a, b) ==
    LET na == Cardinality(DOMAIN a)
        nb == Cardinality(DOMAIN b)
    IN  [k \in Range0(na + nb) |-> IF k < na THEN a[k] ELSE b[k - na]]

\* Mutant of AllData2d: the two hands' arrays stacked in the other order.
AllData2dHandsSwapped(m2d) ==
    [f \in DOMAIN m2d.body2d_frameNumber_trackedPointNumber_XY |->
        Concat0(Concat0(Concat0(m2d.body2d_frameNumber_trackedPointNumber_XY[f],
                                m2d.leftHand2d_frameNumber_trackedPointNumber_XY[f]),
                        m2d.rightHand2d_frameNumber_trackedPointNumber_XY[f]),
                m2d.face2d_frameNumber_trackedPointNumber_XY[f])]

\* Mediapipe2dSingleCameraNpyArrays.all_data2d_nFrames_nTrackedPts_XY:
\* np.hstack joins the four arrays along the tracked-point axis.
AllData2d(m2d) ==
    [f \in DOMAIN m2d.body2d_frameNumber_trackedPointNumber_XY |->
        Concat0(Concat0(Concat0(m2d.body2d_frameNumber_trackedPointNumber_XY[f],
                                m2d.rightHand2d_frameNumber_trackedPointNumber_XY[f]),
                        m2d.leftHand2d_frameNumber_trackedPointNumber_XY[f]),
                m2d.face2d_frameNumber_trackedPointNumber_XY[f])]

\* ndarray.shape of an all_data2d array.  An array of no frames still has its
\* point and XY axes: np.hstack of the four allocations of shapes
\* (0, points of the part, 2) has shape (0, sum of the parts' points, 2).
Shape(a) ==
    LET frames == Cardinality(DOMAIN a)
        points == IF frames = 0
                  THEN number_of_body_trackedPoints + number_of_right_hand_trackedPoints
                       + number_of_left_hand_trackedPoints + number_of_face_trackedPoints
                  ELSE Cardinality(DOMAIN a[0])
        dims == IF frames = 0 \/ points = 0 THEN number_of_spatial_dimensions
                ELSE Cardinality(DOMAIN a[0][0])
    IN  <<frames, points, dims>>

\* numpy's rule for `target[...] = source`: every axis of the source has the
\* target's length or length 1.
Broadcastable(source_shape, target_shape) ==
    \A i \in 1 .. 3 : source_shape[i] = target_shape[i] \/ source_shape[i] = 1

\* The value numpy stores in a target of target_shape: an axis of length 1 is
\* repeated along the target's axis.
BroadcastTo(source, target_shape) ==
    LET s == Shape(source)
    IN  [f \in Range0(target_shape[1]) |->
            [k \in Range0(target_shape[2]) |->
                [d \in Range0(target_shape[3]) |->
                    source[IF s[1] = 1 THEN 0 ELSE f]
                          [IF s[2] = 1 THEN 0 ELSE k]
                          [IF s[3] = 1 THEN 0 ELSE d]]]]

\* np.empty: an array whose cells hold whatever the memory held.
Empty4(cameras, shape, garbage) ==
    [c \in Range0(cameras) |->
        [f \in Range0(shape[1]) |->
            [k \in Range0(shape[2]) |-> [d \in Range0(shape[3]) |-> garbage]]]]

\* `for this_cam_num in range(number_of_cameras): data[this_cam_num, :, :, :] = ...`
\* from this_cam_num on: the filled array, or the ValueError numpy raises.
RECURSIVE StackLoop(_, _, _, _)
StackLoop(data, all_cameras_data2d_list, this_cam_num, shape) ==
    IF this_cam_num >= Len(all_cameras_data2d_list)
    THEN [raised |-> FALSE, data |-> data]
    ELSE LET source == all_cameras_data2d_list[this_cam_num + 1]
         IN  IF Broadcastable(Shape(source), shape)
             THEN StackLoop([data EXCEPT ![this_cam_num] = BroadcastTo(source, shape)],
                            all_cameras_data2d_list, this_cam_num + 1, shape)
             ELSE [raised |-> TRUE,
                   error |-> [type |-> "ValueError", line |-> 131,
                              source_shape |-> Shape(source),
                              target_shape |-> shape]]

\* Mutant of Assembly: no cameras give an empty stacked array instead of an
\* IndexError.
AssemblyEmptyAllowed(m2d_list, garbage) ==
    LET all_cameras_data2d_list == [i \in 1 .. Len(m2d_list) |-> AllData2d(m2d_list[i])]
        number_of_cameras == Len(all_cameras_data2d_list)
    IN  IF number_of_cameras = 0
        THEN [raised |-> FALSE, data |-> <<>>]
        ELSE LET shape == Shape(all_cameras_data2d_list[1])
             IN  IF shape[3] # 2
                 THEN [raised |-> TRUE, error |-> [type |-> "Exception", line |-> 122]]
                 ELSE StackLoop(Empty4(number_of_cameras, shape, garbage),
                                all_cameras_data2d_list, 0, shape)

\* Lines 112-134 for a list of per-camera arrays: what is raised, or the array
\* that is saved and returned.
Assembly(m2d_list, garbage) ==
    LET all_cameras_data2d_list == [i \in 1 .. Len(m2d_list) |-> AllData2d(m2d_list[i])]
        number_of_cameras == Len(all_cameras_data2d_list)
    IN  IF number_of_cameras = 0
        THEN [raised |-> TRUE, error |-> [type |-> "IndexError", line |-> 116]]
        ELSE LET shape == Shape(all_cameras_data2d_list[1])
             IN  IF shape[3] # 2
                 THEN [raised |-> TRUE, error |-> [type |-> "Exception", line |-> 122]]
                 ELSE StackLoop(Empty4(number_of_cameras, shape, garbage),
                                all_cameras_data2d_list, 0, shape)

\* ------------------------------------------------------------------------
\* Spec: process_session_folder

Init ==
    /\ ArraysIdle
    /\ pc = "for_video"
    /\ save_annotated_videos \in BOOLEAN
    /\ video_files \in 0 .. MaxVideos
    /\ video_number = 0
    /\ this_video_capture_object = None
    /\ this_video_width = 0
    /\ this_video_height = 0
    /\ this_video_mediapipe_results_list = <<>>
    /\ this_video_annotated_images_list = <<>>
    /\ success = FALSE
    /\ image = None
    /\ mediapipe2d_single_camera_npy_arrays_list = <<>>
    /\ annotated_videos = <<>>
    /\ saved_npy = None
    /\ return_value = None
    /\ error = NoError

\* Mutant of OpenVideo: the check of the first read is missing, so a failed
\* first read falls through to the frame loop's test.
OpenVideoUnchecked ==
    /\ pc = "for_video"
    /\ video_number < video_files
    /\ \E size \in VideoSizes, r \in ReadResults(0) :
        /\ this_video_capture_object' = Some(AfterRead([reads |-> 0, delivered |-> <<>>], r))
        /\ this_video_width' = size[1]
        /\ this_video_height' = size[2]
        /\ this_video_mediapipe_results_list' = <<>>
        /\ this_video_annotated_images_list' = <<>>
        /\ success' = r.success
        /\ image' = r.image
        /\ error' = error
        /\ pc' = IF r.success /\ r.image # None THEN "while_frame" ELSE "after_while"
    /\ UNCHANGED <<save_annotated_videos, video_files, video_number,
                   mediapipe2d_single_camera_npy_arrays_list, annotated_videos,
                   saved_npy, return_value>>
    /\ UNCHANGED arrayVars

\* The head of a video-loop iteration: open the next file, read its size and
\* its first frame; raise if that read fails.
OpenVideo ==
    /\ pc = "for_video"
    /\ video_number < video_files
    /\ \E size \in VideoSizes, r \in ReadResults(0) :
        /\ this_video_capture_object' = Some(AfterRead([reads |-> 0, delivered |-> <<>>], r))
        /\ this_video_width' = size[1]
        /\ this_video_height' = size[2]
        /\ this_video_mediapipe_results_list' = <<>>
        /\ this_video_annotated_images_list' = <<>>
        /\ success' = r.success
        /\ image' = r.image
        /\ IF ~r.success \/ r.image = None
           THEN /\ error' = [type |-> "Exception", line |-> 88]
                /\ pc' = "failed"
           ELSE /\ error' = error
                /\ pc' = "while_frame"
    /\ UNCHANGED <<save_annotated_videos, video_files, video_number,
                   mediapipe2d_single_camera_npy_arrays_list, annotated_videos,
                   saved_npy, return_value>>
    /\ UNCHANGED arrayVars

\* One iteration of the frame loop: detect, annotate, read the next frame.
WhileFrame ==
    /\ pc = "while_frame"
    /\ success /\ image # None
    /\ \E r \in ReadResults(Get(this_video_capture_object).reads) :
        /\ this_video_mediapipe_results_list' =
               Append(this_video_mediapipe_results_list, DetectSkeletonInImage(Get(image)))
        /\ this_video_annotated_images_list' =
               Append(this_video_annotated_images_list, Get(image))
        /\ this_video_capture_object' = Some(AfterRead(Get(this_video_capture_object), r))
        /\ success' = r.success
        /\ image' = r.image
        /\ pc' = IF r.success /\ r.image # None THEN "while_frame" ELSE "after_while"
    /\ UNCHANGED <<save_annotated_videos, video_files, video_number, this_video_width,
                   this_video_height, mediapipe2d_single_camera_npy_arrays_list,
                   annotated_videos, saved_npy, return_value, error>>
    /\ UNCHANGED arrayVars

\* The same iteration when _annotate_image raises: nothing catches it.
WhileFrameAnnotateRaises ==
    /\ pc = "while_frame"
    /\ success /\ image # None
    /\ this_video_mediapipe_results_list' =
           Append(this_video_mediapipe_results_list, DetectSkeletonInImage(Get(image)))
    /\ error' = [type |-> "RenderError", line |-> 93]
    /\ pc' = "failed"
    /\ UNCHANGED <<save_annotated_videos, video_files, video_number,
                   this_video_capture_object, this_video_width, this_video_height,
                   this_video_annotated_images_list, success, image,
                   mediapipe2d_single_camera_npy_arrays_list, annotated_videos,
                   saved_npy, return_value>>
    /\ UNCHANGED arrayVars

\* After the frame loop: save the annotated video if asked, then call the
\* conversion on this video's results.
AfterWhile ==
    /\ pc = "after_while"
    /\ annotated_videos' =
           IF save_annotated_videos
           THEN Append(annotated_videos,
                       [video |-> video_number,
                        images |-> this_video_annotated_images_list,
                        image_width |-> this_video_width,
                        image_height |-> this_video_height])
           ELSE annotated_videos
    /\ apc' = "allocate"
    /\ mediapipe_results_list' = this_video_mediapipe_results_list
    /\ image_width' = this_video_width
    /\ image_height' = this_video_height
    /\ this_frame_number' = 0
    /\ locals' = None
    /\ returned_arrays' = None
    /\ pc' = "convert"
    /\ UNCHANGED <<save_annotated_videos, video_files, video_number,
                   this_video_capture_object, this_video_width, this_video_height,
                   this_video_mediapipe_results_list, this_video_annotated_images_list,
                   success, image, mediapipe2d_single_camera_npy_arrays_list,
                   saved_npy, return_value, error>>

\* The conversion has returned: append its arrays and go to the next video.
AppendArrays ==
    /\ pc = "convert"
    /\ apc = "returned"
    /\ mediapipe2d_single_camera_npy_arrays_list' =
           Append(mediapipe2d_single_camera_npy_arrays_list, Get(returned_arrays))
    /\ video_number' = video_number + 1
    /\ pc' = "for_video"
    /\ apc' = "idle"
    /\ mediapipe_results_list' = <<>>
    /\ image_width' = 1
    /\ image_height' = 1
    /\ this_frame_number' = 0
    /\ locals' = None
    /\ returned_arrays' = None
    /\ UNCHANGED <<save_annotated_videos, video_files, this_video_capture_object,
                   this_video_width, this_video_height,
                   this_video_mediapipe_results_list, this_video_annotated_images_list,
                   success, image, annotated_videos, saved_npy, return_value, error>>

\* The same position when save_annotated_videos raises: nothing catches it.
AfterWhileSaveRaises ==
    /\ pc = "after_while"
    /\ save_annotated_videos
    /\ error' = [type |-> "RenderError", line |-> 99]
    /\ pc' = "failed"
    /\ UNCHANGED <<save_annotated_videos, video_files, video_number,
                   this_video_capture_object, this_video_width, this_video_height,
                   this_video_mediapipe_results_list, this_video_annotated_images_list,
                   success, image, mediapipe2d_single_camera_npy_arrays_list,
                   annotated_videos, saved_npy, return_value>>
    /\ UNCHANGED arrayVars

\* After the video loop: stack the per-camera arrays, save and return.
Assemble ==
    /\ pc = "for_video"
    /\ video_number >= video_files
    /\ \E garbage \in {NaN, 0} :
        LET result == Assembly(mediapipe2d_single_camera_npy_arrays_list, garbage)
        IN  IF result.raised
            THEN /\ error' = result.error
                 /\ pc' = "failed"
                 /\ UNCHANGED <<saved_npy, return_value>>
            ELSE /\ saved_npy' = Some(result.data)
                 /\ return_value' = Some(result.data)
                 /\ pc' = "done"
                 /\ error' = error
    /\ UNCHANGED <<save_annotated_videos, video_files, video_number,
                   this_video_capture_object, this_video_width, this_video_height,
                   this_video_mediapipe_results_list, this_video_annotated_images_list,
                   success, image, mediapipe2d_single_camera_npy_arrays_list,
                   annotated_videos>>
    /\ UNCHANGED arrayVars

Next ==
    \/ OpenVideo
    \/ WhileFrame
    \/ WhileFrameAnnotateRaises
    \/ AfterWhile
    \/ AfterWhileSaveRaises
    \/ Allocate
    \/ Frame
    \/ Return
    \/ AppendArrays
    \/ Assemble

Spec == Init /\ [][Next]_vars

\* ------------------------------------------------------------------------
\* Vocabulary of the properties

\* The landmark attribute of a detector result that holds part p.
PartOf(results, p) ==
    CASE p = "pose" -> results.pose_landmarks
      [] p = "right_hand" -> results.right_hand_landmarks
      [] p = "left_hand" -> results.left_hand_landmarks
      [] p = "face" -> results.face_landmarks

\* The XY array of part p in a record of arrays.
BlockOf(arrays, p) ==
    CASE p = "pose" -> arrays.body2d_frameNumber_trackedPointNumber_XY
      [] p = "right_hand" -> arrays.rightHand2d_frameNumber_trackedPointNumber_XY
      [] p = "left_hand" -> arrays.leftHand2d_frameNumber_trackedPointNumber_XY
      [] p = "face" -> arrays.face2d_frameNumber_trackedPointNumber_XY

\* The per-frame visibility list of part p among the conversion's locals.
FlagsOf(l, p) ==
    CASE p = "pose" -> l.all_body_tracked_points_visible_on_this_frame_bool_list
      [] p = "right_hand" -> l.all_right_hand_points_visible_on_this_frame_bool_list
      [] p = "left_hand" -> l.all_left_hand_points_visible_on_this_frame_bool_list
      [] p = "face" -> l.all_face_points_visible_on_this_frame_bool_list

PointsOf(p) ==
    CASE p = "pose" -> number_of_body_trackedPoints
      [] p = "right_hand" -> number_of_right_hand_trackedPoints
      [] p = "left_hand" -> number_of_left_hand_trackedPoints
      [] p = "face" -> number_of_face_trackedPoints

Last(seq) == seq[Len(seq)]

\* Every cell of row f of block holds the sentinel.
RowIsSentinel(block, f) ==
    \A k \in DOMAIN block[f] : \A d \in DOMAIN block[f][k] : IsNaN(block[f][k][d])

\* Every tracked point of row f of block holds the pixel position of lm.
RowIsLandmark(block, f, lm, width, height) ==
    \A k \in DOMAIN block[f] :
        /\ block[f][k][0] = lm.x * width
        /\ block[f][k][1] = lm.y * height

\* The conversion call has returned.
Returned == apc = "returned" /\ returned_arrays # None

\* ------------------------------------------------------------------------
\* C1: in the arrays the conversion returns, whenever part p is absent (None)
\* from the f-th detection result, every cell of part p's coordinate block at
\* row f is the sentinel NaN.
C1_AbsentPartIsSentinel ==
    Returned =>
        \A f \in Range0(Len(mediapipe_results_list)) : \A p \in PartNames :
            PartOf(mediapipe_results_list[f + 1], p) = None
                => /\ DOMAIN BlockOf(Get(returned_arrays), p)[f] = Range0(PointsOf(p))
                   /\ RowIsSentinel(BlockOf(Get(returned_arrays), p), f)

\* A call has returned for a list in which a frame lacks one part and shows
\* another, after a frame that showed the part now lacking.
C1_Witness ==
    /\ Returned
    /\ pc = "idle"
    /\ Len(mediapipe_results_list) = 2
    /\ mediapipe_results_list[1].pose_landmarks # None
    /\ mediapipe_results_list[2].pose_landmarks = None
    /\ mediapipe_results_list[2].face_landmarks # None

\* ------------------------------------------------------------------------
\* C5: for a frame whose body landmark list holds N landmarks with pairwise
\* distinct (x, y), the stored body coordinate of tracked point k is landmark
\* k's (x * image_width, y * image_height), for every k in 0 .. N-1.
PairwiseDistinct(landmark) ==
    \A i, j \in 1 .. Len(landmark) :
        i # j => <<landmark[i].x, landmark[i].y>> # <<landmark[j].x, landmark[j].y>>

\* C5: tracked point k of the body row holds landmark k's pixel position.
C5_PerPointAssignment ==
    Returned =>
        \A f \in Range0(Len(mediapipe_results_list)) :
            LET pose == mediapipe_results_list[f + 1].pose_landmarks
                body == Get(returned_arrays).body2d_frameNumber_trackedPointNumber_XY
            IN  (pose # None /\ PairwiseDistinct(Get(pose).landmark))
                    => \A k \in Range0(Len(Get(pose).landmark)) \cap DOMAIN body[f] :
                          /\ body[f][k][0] = Get(pose).landmark[k + 1].x * image_width
                          /\ body[f][k][1] = Get(pose).landmark[k + 1].y * image_height

\* ------------------------------------------------------------------------
\* C8: for every frame already processed, a part's visibility flag is true
\* exactly when no cell of the part's block at that row is the sentinel, and
\* the overall flag is the conjunction of the four parts' flags.
C8_VisibilityFlags ==
    (apc \in {"frames", "returned"} /\ locals # None) =>
        LET l == Get(locals)
        IN  /\ Len(l.all_tracked_points_visible_on_this_frame_list) = this_frame_number
            /\ \A p \in PartNames : Len(FlagsOf(l, p)) = this_frame_number
            /\ \A f \in Range0(this_frame_number) :
                /\ \A p \in PartNames :
                      FlagsOf(l, p)[f + 1]
                          <=> (\A k \in DOMAIN BlockOf(l, p)[f] :
                                  \A d \in DOMAIN BlockOf(l, p)[f][k] :
                                      ~IsNaN(BlockOf(l, p)[f][k][d]))
                /\ l.all_tracked_points_visible_on_this_frame_list[f + 1]
                      <=> (\A p \in PartNames : FlagsOf(l, p)[f + 1])

\* Two frames have been processed: one showing every part, one showing some
\* parts and lacking others.
C8_Witness ==
    /\ pc = "idle"
    /\ locals # None
    /\ this_frame_number = 2
    /\ Get(locals).all_tracked_points_visible_on_this_frame_list[1]
    /\ ~Get(locals).all_tracked_points_visible_on_this_frame_list[2]
    /\ \E p \in PartNames : FlagsOf(Get(locals), p)[2]

\* ------------------------------------------------------------------------
\* C9: when a part is present in frame f with a non-empty landmark list, every
\* tracked point of the part's block at row f holds the pixel position of the
\* LAST landmark of the list; the body confidence row f holds the last body
\* landmark's visibility in every entry; the hands and the face write no
\* confidence: without a body, row f of the confidence array stays NaN.
C9_BroadcastLastLandmark ==
    Returned =>
        \A f \in Range0(Len(mediapipe_results_list)) :
            LET results == mediapipe_results_list[f + 1]
                confidence ==
                    Get(returned_arrays).body2d_frameNumber_trackedPointNumber_confidence
            IN  /\ \A p \in PartNames :
                      (PartOf(results, p) # None
                       /\ Len(Get(PartOf(results, p)).landmark) > 0)
                          => RowIsLandmark(BlockOf(Get(returned_arrays), p), f,
                                           Last(Get(PartOf(results, p)).landmark),
                                           image_width, image_height)
                /\ DOMAIN confidence[f] = Range0(number_of_body_trackedPoints)
                /\ \A k \in DOMAIN confidence[f] :
                      confidence[f][k] =
                          IF results.pose_landmarks # None
                             /\ Len(Get(results.pose_landmarks).landmark) > 0
                          THEN Last(Get(results.pose_landmarks).landmark).visibility
                          ELSE NaN

\* A call with a scaling image size has returned for a frame that shows every
\* part and whose last body landmark is not its largest, and a frame that
\* shows hands but no body.
C9_Witness ==
    /\ Returned
    /\ pc = "idle"
    /\ image_width # image_height
    /\ Len(mediapipe_results_list) = 2
    /\ \A p \in PartNames : PartOf(mediapipe_results_list[1], p) # None
    /\ Get(mediapipe_results_list[1].pose_landmarks).landmark[1].x
          > Last(Get(mediapipe_results_list[1].pose_landmarks).landmark).x
    /\ mediapipe_results_list[2].pose_landmarks = None
    /\ mediapipe_results_list[2].right_hand_landmarks # None

\* ------------------------------------------------------------------------
\* Vocabulary of the session's properties

\* The number of frame rows of a camera's arrays.
FramesOf(m2d) == Cardinality(DOMAIN m2d.body2d_frameNumber_trackedPointNumber_XY)

\* The assembly step has run to its end, one way or the other.
AssemblyRan ==
    \/ pc = "done"
    \/ pc = "failed" /\ error.line \in {116, 122, 131}

\* Some camera's frame count differs from another's.
FrameCountsDiffer ==
    \E i, j \in 1 .. Len(mediapipe2d_single_camera_npy_arrays_list) :
        FramesOf(mediapipe2d_single_camera_npy_arrays_list[i])
            # FramesOf(mediapipe2d_single_camera_npy_arrays_list[j])

\* ------------------------------------------------------------------------
\* C2: whenever the cameras' frame counts differ, assembly fails with a
\* shape-mismatch error and no stacked array is persisted or returned.
C2_MismatchAlwaysFails ==
    (AssemblyRan /\ FrameCountsDiffer) =>
        /\ pc = "failed"
        /\ error.type = "ValueError"
        /\ saved_npy = None
        /\ return_value = None

\* ------------------------------------------------------------------------
\* C3: when the first read of a video fails, at whatever position of the
\* discovery order, the call raises there: the read is not repeated, no
\* detection has run on the video, nothing was appended for it, no later video
\* is opened, nothing is assembled, saved or returned, and nothing happens
\* afterwards.
FirstFrameAbort == pc = "failed" /\ error.type = "Exception" /\ error.line = 88

C3_AbortState ==
    FirstFrameAbort =>
        /\ Get(this_video_capture_object).reads = 1
        /\ Get(this_video_capture_object).delivered = <<>>
        /\ this_video_mediapipe_results_list = <<>>
        /\ this_video_annotated_images_list = <<>>
        /\ video_number < video_files
        /\ Len(mediapipe2d_single_camera_npy_arrays_list) = video_number
        /\ Len(annotated_videos) <= video_number
        /\ apc = "idle"
        /\ saved_npy = None
        /\ return_value = None

C3_AbortStep ==
    (pc = "for_video" /\ video_number < video_files /\ (~success' \/ image' = None))
        => FirstFrameAbort'

\* C3: a failed first read always leads to the abort, the aborted state is as
\* described above, and no step leaves it.
C3_FirstFrameFailureAborts ==
    /\ [](C3_AbortState)
    /\ [][C3_AbortStep]_vars
    /\ [][~FirstFrameAbort]_vars

\* The first read of the second video failed after the first video was
\* processed.
C3_Witness ==
    /\ FirstFrameAbort
    /\ video_number = 1
    /\ Len(mediapipe2d_single_camera_npy_arrays_list) = 1

\* ------------------------------------------------------------------------
\* C4: a failure while rendering or saving a camera's annotated video does not
\* abort the call.
C4_RenderFailureDoesNotAbort ==
    ~(pc = "failed" /\ error.type = "RenderError")

\* ------------------------------------------------------------------------
\* C6: when the call succeeds on C videos of F frames each, the array saved
\* and returned has shape [C, F, points_total, 2] with points_total the sum of
\* the four parts' point counts; along the point axis lie the body block, the
\* right-hand block, the left-hand block and the face block, in this order;
\* slice c is the per-camera array of the c-th video.
points_total ==
    number_of_body_trackedPoints + number_of_right_hand_trackedPoints
        + number_of_left_hand_trackedPoints + number_of_face_trackedPoints

\* C6: shape, column order and camera slices of the saved and returned array.
C6_StackedLayout ==
    (pc = "done" /\ ~FrameCountsDiffer) =>
        LET data == Get(saved_npy)
            cams == mediapipe2d_single_camera_npy_arrays_list
            F == FramesOf(cams[1])
            nb == number_of_body_trackedPoints
            nr == number_of_right_hand_trackedPoints
            nl == number_of_left_hand_trackedPoints
        IN  /\ saved_npy # None
            /\ return_value = saved_npy
            /\ Len(cams) = video_files
            /\ DOMAIN data = Range0(video_files)
            /\ \A c \in DOMAIN data :
                /\ DOMAIN data[c] = Range0(F)
                /\ \A f \in DOMAIN data[c] :
                    /\ DOMAIN data[c][f] = Range0(points_total)
                    /\ \A k \in DOMAIN data[c][f] :
                        /\ DOMAIN data[c][f][k] = Range0(2)
                        /\ data[c][f][k] =
                              IF k < nb
                              THEN cams[c + 1].body2d_frameNumber_trackedPointNumber_XY[f][k]
                              ELSE IF k < nb + nr
                              THEN cams[c + 1].rightHand2d_frameNumber_trackedPointNumber_XY[f][k - nb]
                              ELSE IF k < nb + nr + nl
                              THEN cams[c + 1].leftHand2d_frameNumber_trackedPointNumber_XY[f][k - nb - nr]
                              ELSE cams[c + 1].face2d_frameNumber_trackedPointNumber_XY[f][k - nb - nr - nl]

\* The call succeeded on two videos of two frames each whose arrays differ.
C6_Witness ==
    /\ pc = "done"
    /\ video_files = 2
    /\ FramesOf(mediapipe2d_single_camera_npy_arrays_list[1]) = 2
    /\ FramesOf(mediapipe2d_single_camera_npy_arrays_list[2]) = 2
    /\ mediapipe2d_single_camera_npy_arrays_list[1]
          # mediapipe2d_single_camera_npy_arrays_list[2]

\* ------------------------------------------------------------------------
\* C7: a video's arrays have one frame row per frame decoded before the first
\* failed read, row f is computed from the detection result of the f-th
\* decoded frame, and writing row f leaves every other row of every array as
\* it was.
C7_RowFromFrame(arrays, f, shown, width, height) ==
    /\ \A p \in PartNames :
          LET part == PartOf(DetectSkeletonInImage(shown), p)
          IN  IF part = None \/ Len(Get(part).landmark) = 0
              THEN RowIsSentinel(BlockOf(arrays, p), f)
              ELSE RowIsLandmark(BlockOf(arrays, p), f, Last(Get(part).landmark),
                                 width, height)
    /\ LET pose == DetectSkeletonInImage(shown).pose_landmarks
       IN  \A k \in DOMAIN arrays.body2d_frameNumber_trackedPointNumber_confidence[f] :
              arrays.body2d_frameNumber_trackedPointNumber_confidence[f][k] =
                  IF pose = None \/ Len(Get(pose).landmark) = 0 THEN NaN
                  ELSE Last(Get(pose).landmark).visibility

C7_RowsOfVideo ==
    (pc = "for_video" /\ video_number > 0) =>
        LET arrays == Last(mediapipe2d_single_camera_npy_arrays_list)
            capture == Get(this_video_capture_object)
        IN  /\ capture.reads = Len(capture.delivered) + 1
            /\ \A p \in PartNames :
                  DOMAIN BlockOf(arrays, p) = Range0(Len(capture.delivered))
            /\ DOMAIN arrays.body2d_frameNumber_trackedPointNumber_confidence
                  = Range0(Len(capture.delivered))
            /\ \A f \in Range0(Len(capture.delivered)) :
                  C7_RowFromFrame(arrays, f, capture.delivered[f + 1],
                                  this_video_width, this_video_height)

C7_OtherRowsKept ==
    (apc = "frames" /\ this_frame_number' = this_frame_number + 1) =>
        \A g \in Range0(Len(mediapipe_results_list)) \ {this_frame_number} :
            /\ \A p \in PartNames :
                  BlockOf(Get(locals'), p)[g] = BlockOf(Get(locals), p)[g]
            /\ Get(locals').body2d_frameNumber_trackedPointNumber_confidence[g]
                  = Get(locals).body2d_frameNumber_trackedPointNumber_confidence[g]

\* C7: the rows of a converted video follow the decode order, and a frame
\* step changes no row but its own.
C7_FrameOrder ==
    /\ [](C7_RowsOfVideo)
    /\ [][C7_OtherRowsKept]_vars

\* A video of two frames that show different things has been converted.
C7_Witness ==
    /\ pc = "for_video"
    /\ video_number > 0
    /\ Len(Get(this_video_capture_object).delivered) = 2
    /\ Get(this_video_capture_object).delivered[1]
          # Get(this_video_capture_object).delivered[2]

\* ------------------------------------------------------------------------
\* C10: when the folder holds no video file, the call neither returns nor
\* saves an array: it fails at the assembly step, with the IndexError of
\* reading the first camera's shape.
C10_NoVideosFails ==
    video_files = 0 =>
        /\ saved_npy = None
        /\ return_value = None
        /\ pc \in {"for_video", "failed"}
        /\ pc = "failed" => (error.type = "IndexError" /\ error.line = 116)

\* The call on an empty folder has failed.
C10_Witness ==
    /\ video_files = 0
    /\ pc = "failed"
    /\ annotated_videos = <<>>

====
